---- MODULE Spec2Model ----
(***************************************************************************)
(* A model of crython (src/crython/crython.py): the cron field matcher     *)
(* CronField.__contains__, the expression matcher, the job wrapper built   *)
(* by job(), and the CronTab thread with its register / deregister / stop  *)
(* operations, each Python statement that touches shared state being one   *)
(* atomic step of the thread that executes it.                             *)
(***************************************************************************)
EXTENDS Integers, Sequences, FiniteSets, TLC

(***************************************************************************)
(* Bounds of the model.                                                    *)
(***************************************************************************)
MaxClock == 2        \* seconds of wall-clock time the model counts
MaxCalls == 3        \* register / deregister / stop calls issued in a run
MaxVal   == 11       \* largest range end a, b of a generated step clause
MaxStep  == 3        \* largest step of a generated step clause
CandPad  == 2        \* candidates range from min - CandPad to max + CandPad

(***************************************************************************)
(* Text.  A Python string is a sequence of one-character strings.          *)
(***************************************************************************)
Digits == <<"0", "1", "2", "3", "4", "5", "6", "7", "8", "9">>

DigitChars == {Digits[i] : i \in 1..10}

DigitVal(c) == (CHOOSE i \in 1..10 : Digits[i] = c) - 1

\* str(n) of a non-negative integer
RECURSIVE Str(_)
Str(n) == IF n < 10 THEN <<Digits[n + 1]>>
                    ELSE Str(n \div 10) \o <<Digits[(n % 10) + 1]>>

\* int(s) is defined on non-empty digit strings; on any other token of the
\* field alphabet it raises ValueError
IsInt(s) == Len(s) > 0 /\ \A i \in 1..Len(s) : s[i] \in DigitChars

RECURSIVE IntOf(_)
IntOf(s) == IF Len(s) = 0 THEN 0
            ELSE 10 * IntOf(SubSeq(s, 1, Len(s) - 1)) + DigitVal(s[Len(s)])

\* str.split / re.split on a set of one-character separators: the pieces
\* between separators, empty pieces kept
RECURSIVE SplitOn(_, _)
SplitOn(s, seps) ==
    IF \A i \in 1..Len(s) : s[i] \notin seps THEN <<s>>
    ELSE LET k == CHOOSE i \in 1..Len(s) :
                      s[i] \in seps /\ \A j \in 1..(i - 1) : s[j] \notin seps
         IN  <<SubSeq(s, 1, k - 1)>> \o SplitOn(SubSeq(s, k + 1, Len(s)), seps)

(***************************************************************************)
(* CronField.                                                              *)
(***************************************************************************)
SPECIALS == {"*", "/", "%", ",", "-", "L", "W", "#", "?"}

\* the characters CronField.__init__ rejects in a string value
InvalidChars(value, specials) ==
    (SPECIALS \ specials) \cap {value[i] : i \in 1..Len(value)}

\* the field kinds: min, max and allowed specials
sec == [min |-> 0, max |-> 59, specials |-> {"*", "/", ",", "-"}]
min == [min |-> 0, max |-> 59, specials |-> {"*", "/", ",", "-"}]
hr  == [min |-> 0, max |-> 23, specials |-> {"*", "/", ",", "-"}]
mon == [min |-> 1, max |-> 12, specials |-> {"*", "/", ",", "-"}]
dow == [min |-> 0, max |-> 6,  specials |-> {"*", "/", "-", "?", "L", "#"}]

\* CronField(value, min, max, specials) for a string value
CronField(value, kind) == [value |-> value, min |-> kind.min, max |-> kind.max]

Returned(b) == [raised |-> FALSE, val |-> b]
ValueError  == [raised |-> TRUE,  val |-> FALSE]

Min2(x, y) == IF x <= y THEN x ELSE y
Max2(x, y) == IF x <= y THEN y ELSE x

\* the conventional step test, (item - start) % step == 0
StepTest_Minus(item, start, step) == (item - start) % step = 0

\* line 65: (item + start) % step == 0
StepTest(item, start, step) == (item + start) % step = 0

\* line 65: start <= item <= stop and (not step or (item + start) % step == 0)
\* step = -1 stands for None
RangeTest(item, start, stop, step) ==
    /\ start <= item
    /\ item <= stop
    /\ (step = -1 \/ step = 0 \/ StepTest(item, start, step))

\* lines 61-65 for one clause already split on - and / into two or more parts
ClauseRange(parts, fld, item) ==
    LET star  == parts[1] = <<"*">>
        \* line 62: value = [self.min, self.max, value[1]]
        okEnds == star \/ (IsInt(parts[1]) /\ IsInt(parts[2]))
        a     == IF star THEN fld.min ELSE IntOf(parts[1])
        b     == IF star THEN fld.max ELSE IntOf(parts[2])
        hasStep == star \/ Len(parts) > 2
        stepTok == IF star THEN parts[2] ELSE parts[3]
    IN  IF ~okEnds THEN ValueError
        ELSE IF hasStep /\ ~IsInt(stepTok) THEN ValueError
        ELSE Returned(RangeTest(item, Min2(a, b), Max2(a, b),
                                IF hasStep THEN IntOf(stepTok) ELSE -1))

\* lines 54-66: the loop over the comma separated clauses, from clause i on,
\* with the accumulated result
RECURSIVE ClauseLoop(_, _, _, _, _)
ClauseLoop(clauses, i, result, fld, item) ==
    IF i > Len(clauses) THEN Returned(result)
    ELSE LET parts == SplitOn(clauses[i], {"-", "/"})
         IN  IF Len(parts) = 1
             THEN IF parts[1] = <<"*">>
                  THEN Returned(fld.min <= item /\ item <= fld.max)
                  ELSE IF ~IsInt(parts[1]) THEN ValueError
                  ELSE ClauseLoop(clauses, i + 1,
                                  result \/ (IntOf(parts[1]) = item), fld, item)
             ELSE LET r == ClauseRange(parts, fld, item)
                  IN  IF r.raised THEN ValueError
                      ELSE ClauseLoop(clauses, i + 1, result \/ r.val, fld, item)

\* CronField.__contains__ for a string value
FieldContains(fld, item) ==
    ClauseLoop(SplitOn(fld.value, {","}), 1, FALSE, fld, item)

(***************************************************************************)
(* CronExpression.  A job built by job(second = p) holds the pattern p in  *)
(* its second field and the default "*" in the six others; the model keeps *)
(* the second and the minute field and a timestamp counted in seconds.     *)
(***************************************************************************)
Star == <<"*">>

CronExpression(p) == [second |-> CronField(p, sec), minute |-> CronField(Star, min)]

\* datetime.timetuple(): the components of a timestamp
TimeTuple(t) == [second |-> t % 60, minute |-> (t \div 60) % 60]

\* CronExpression.__contains__: all(item[k] in v for k, v in fields); a field
\* that raises ends all() with its error
ExprContains(cron, t) ==
    LET item == TimeTuple(t)
        s == FieldContains(cron.second, item.second)
        m == FieldContains(cron.minute, item.minute)
    IN  IF s.raised \/ m.raised THEN ValueError ELSE Returned(s.val /\ m.val)

Accepts(cron, t) == LET r == ExprContains(cron, t) IN ~r.raised /\ r.val

(***************************************************************************)
(* The scheduler: CronTab, its callers and the clock.                      *)
(***************************************************************************)
Names   == {"a", "b"}          \* registry keys (f.name)
Callers == {1, 2}              \* threads calling register, deregister, stop

EverySecond == Star
EveryOther  == <<"*", "/", "2">>
Malformed   == <<"1", "-">>    \* passes __init__, int('') raises on matching

\* f.name is the decorated function's qualified name, so a name stands for
\* a function and the crons it was decorated with: the second patterns a
\* caller registers under each name
CronsOf(n) == IF n = "a" THEN {EverySecond} ELSE {EveryOther, Malformed}

\* what a callable does when called, and what a continuation does
Outcomes     == {"return", "Exception", "BaseException"}
ContOutcomes == {"return", "Exception"}

VARIABLES
    jobs,          \* self.jobs: name -> the job's cron pattern
    proc_event,    \* self.proc_event
    stop_event,    \* self.stop_event
    pc,            \* where the CronTab thread is in run()
    now,           \* run()'s local now (-1 before the first sweep)
    snap,          \* the list self.jobs.items() of the sweep, as a mapping
    items,         \* the names of that list still to iterate, in its order
    slept,         \* one second has passed since time.sleep(1) began
    woken,         \* a set() has notified the loop blocked in wait()
    cpc,           \* where each caller is in its current call
    carg,          \* the name argument of a deregister call in progress
    calls,         \* calls issued so far
    clock,         \* wall-clock time, in seconds
    inv,           \* what the last call of a job wrapper did
    regAtCapture,  \* history: the registry when the sweep captured now
    invokedThis,   \* history: the names invoked so far in the sweep
    served,        \* history: per name, the last second served and how often
    quiet,         \* history: a deregister emptied the registry, no register since
    snapInQuiet,   \* history: the sweep's list was taken after that deregister
    stopDone,      \* history: a stop() call has returned
    stopLive,      \* history: stop() was called on the started scheduler
    sweepsAfterStop, \* history: sweeps begun since a stop() call returned
    lateReg,       \* history: register() was called after run() ended
    field,         \* a CronField built from a step clause
    form,          \* the clause's form: "range" is a-b/step, "star" is */step
    inA, inB, inStep,  \* the numbers the clause was written from
    cand,          \* the candidate asked for
    applied,       \* __contains__ has been called
    res            \* what it returned

schedVars == <<jobs, proc_event, stop_event, pc, now, snap, items, slept, woken,
               cpc, carg, calls, clock, inv, regAtCapture, invokedThis,
               served, quiet, snapInQuiet, stopDone, stopLive, sweepsAfterStop, lateReg>>
fieldVars == <<field, form, inA, inB, inStep, cand, applied, res>>
vars == <<schedVars, fieldVars>>

loopVars   == <<pc, now, snap, items, slept, woken>>
callerVars == <<cpc, carg, calls>>
histVars   == <<regAtCapture, invokedThis, served, quiet, snapInQuiet,
                stopDone, stopLive, sweepsAfterStop, lateReg>>

Terminal == {"returned", "failed", "killed"}

EmptyMap == [n \in {} |-> Star]
NoInv == [valid |-> FALSE, func |-> "return",
          succ |-> FALSE, fail |-> FALSE, escaped |-> "none"]
NotServed == [sec |-> -1, cnt |-> 0]
NoField == [value |-> Star, min |-> 0, max |-> 0]

\* CronTab.__init__ and the module's tab = CronTab(): not started, no jobs
InitSched ==
    /\ jobs = EmptyMap
    /\ proc_event = FALSE
    /\ stop_event = FALSE
    /\ pc = "new"
    /\ now = -1
    /\ snap = EmptyMap
    /\ items = <<>>
    /\ slept = FALSE
    /\ woken = FALSE
    /\ cpc = [c \in Callers |-> "idle"]
    /\ carg = [c \in Callers |-> "a"]
    /\ calls = 0
    /\ clock = 0
    /\ inv = NoInv
    /\ regAtCapture = EmptyMap
    /\ invokedThis = <<>>
    /\ served = [n \in Names |-> NotServed]
    /\ quiet = FALSE
    /\ snapInQuiet = FALSE
    /\ stopDone = FALSE
    /\ stopLive = FALSE
    /\ sweepsAfterStop = 0
    /\ lateReg = FALSE

InitNoField ==
    /\ field = NoField
    /\ form = "star"
    /\ applied = FALSE
    /\ inA = 0
    /\ inB = 0
    /\ inStep = 1
    /\ cand = 0
    /\ res = Returned(FALSE)

Init == InitSched /\ InitNoField

(***************************************************************************)
(* The callers: register, deregister and stop, statement by statement.     *)
(***************************************************************************)
Put(f, n, v) == [m \in DOMAIN f \cup {n} |-> IF m = n THEN v ELSE f[m]]
Del(f, n)    == [m \in DOMAIN f \ {n} |-> f[m]]

Goto(c, l) == cpc' = [cpc EXCEPT ![c] = l]

\* line 129, reached from job()'s decorator (lines 165, 177) with a cron
\* that CronExpression accepted: self.jobs[name] = job
RegisterPut(c, n, p) ==
    /\ cpc[c] = "idle"
    /\ calls < MaxCalls
    /\ p \in CronsOf(n)
    /\ InvalidChars(p, sec.specials) = {}
    /\ calls' = calls + 1
    /\ jobs' = Put(jobs, n, p)
    /\ Goto(c, "reg_set")
    /\ served' = [served EXCEPT ![n] = NotServed]
    /\ quiet' = FALSE
    /\ lateReg' = (lateReg \/ pc \in Terminal)
    /\ UNCHANGED <<proc_event, stop_event, loopVars, carg, clock, inv,
                   regAtCapture, invokedThis, snapInQuiet, stopDone, stopLive,
                   sweepsAfterStop, fieldVars>>

\* line 130: self.proc_event.set(), which sets the flag and notifies a
\* thread blocked in wait()
RegisterSet(c) ==
    /\ cpc[c] = "reg_set"
    /\ proc_event' = TRUE
    /\ woken' = (pc = "blocked")
    /\ Goto(c, "idle")
    /\ quiet' = FALSE
    /\ UNCHANGED <<jobs, stop_event, pc, now, snap, items, slept, carg,
                   calls, clock, inv,
                   regAtCapture, invokedThis, served, snapInQuiet, stopDone, stopLive,
                   sweepsAfterStop, lateReg, fieldVars>>

\* line 133: if name in self.jobs
DeregisterTest(c, n) ==
    /\ cpc[c] = "idle"
    /\ calls < MaxCalls
    /\ IF n \in DOMAIN jobs
       THEN /\ Goto(c, "dereg_del")
            /\ carg' = [carg EXCEPT ![c] = n]
            /\ calls' = calls + 1
       ELSE UNCHANGED <<cpc, carg, calls>>
    /\ UNCHANGED <<jobs, proc_event, stop_event, loopVars, clock, inv,
                   histVars, fieldVars>>

\* line 134: del self.jobs[name]; KeyError when another caller removed it
DeregisterDel(c) ==
    /\ cpc[c] = "dereg_del"
    /\ IF carg[c] \in DOMAIN jobs
       THEN /\ jobs' = Del(jobs, carg[c])
            /\ Goto(c, "dereg_len")
            /\ served' = [served EXCEPT ![carg[c]] = NotServed]
       ELSE /\ Goto(c, "idle")
            /\ UNCHANGED <<jobs, served>>
    /\ carg' = [carg EXCEPT ![c] = "a"]
    /\ UNCHANGED <<proc_event, stop_event, loopVars, calls, clock, inv,
                   regAtCapture, invokedThis, quiet, snapInQuiet, stopDone, stopLive,
                   sweepsAfterStop, lateReg, fieldVars>>

\* line 135: if len(self.jobs) == 0
DeregisterLen(c) ==
    /\ cpc[c] = "dereg_len"
    /\ Goto(c, IF DOMAIN jobs = {} THEN "dereg_clear" ELSE "idle")
    /\ UNCHANGED <<jobs, proc_event, stop_event, loopVars, carg, calls, clock,
                   inv, histVars, fieldVars>>

\* a deregister that leaves proc_event set when it empties the registry
DeregisterClear_NoClear(c) ==
    /\ cpc[c] = "dereg_clear"
    /\ Goto(c, "idle")
    /\ quiet' = (quiet \/ DOMAIN jobs = {})
    /\ snapInQuiet' = (snapInQuiet /\ quiet)
    /\ UNCHANGED <<jobs, proc_event, stop_event, loopVars, carg, calls, clock,
                   inv, regAtCapture, invokedThis, served, stopDone, stopLive,
                   sweepsAfterStop, lateReg, fieldVars>>

\* line 136: self.proc_event.clear()
DeregisterClear(c) ==
    /\ cpc[c] = "dereg_clear"
    /\ proc_event' = FALSE
    /\ Goto(c, "idle")
    /\ quiet' = (quiet \/ DOMAIN jobs = {})
    /\ snapInQuiet' = (snapInQuiet /\ quiet)
    /\ UNCHANGED <<jobs, stop_event, loopVars, carg, calls, clock, inv,
                   regAtCapture, invokedThis, served, stopDone, stopLive,
                   sweepsAfterStop, lateReg, fieldVars>>

\* line 139: self.stop_event.set()
StopSet(c) ==
    /\ cpc[c] = "idle"
    /\ calls < MaxCalls
    /\ calls' = calls + 1
    /\ stop_event' = TRUE
    /\ Goto(c, "stop_clear")
    /\ stopLive' = (stopLive \/ pc # "new")
    /\ UNCHANGED <<jobs, proc_event, loopVars, carg, clock, inv,
                   regAtCapture, invokedThis, served, quiet, snapInQuiet,
                   stopDone, sweepsAfterStop, lateReg, fieldVars>>

\* line 140: self.proc_event.clear()
StopClear(c) ==
    /\ cpc[c] = "stop_clear"
    /\ proc_event' = FALSE
    /\ Goto(c, "idle")
    /\ stopDone' = TRUE
    /\ UNCHANGED <<jobs, stop_event, loopVars, carg, calls, clock, inv,
                   regAtCapture, invokedThis, served, quiet, snapInQuiet,
                   stopLive, sweepsAfterStop, lateReg, fieldVars>>

(***************************************************************************)
(* The job wrapper f of job().decorator, lines 170-174.                    *)
(***************************************************************************)
\* What one call of f does, given what the callable, on_success and
\* on_failure do when called: which continuations are called and what
\* leaves f ("none": f returns).  except Exception catches what the try
\* block raises, on_success's errors included, and no BaseException.
Wrapper(func, succ, fail) ==
    LET tried  == IF func = "return" THEN succ ELSE func
        caught == tried = "Exception"
    IN  [valid   |-> TRUE,
         func    |-> func,
         succ    |-> func = "return",
         fail    |-> caught,
         escaped |-> IF caught THEN (IF fail = "return" THEN "none" ELSE fail)
                     ELSE IF tried = "return" THEN "none" ELSE tried]

(***************************************************************************)
(* CronTab.run, lines 142-157.                                             *)
(***************************************************************************)
\* the orders in which a dict's items() can list the keys of f
Orders(f) ==
    {s \in [1..Cardinality(DOMAIN f) -> DOMAIN f] :
        \A i, j \in DOMAIN s : i # j => s[i] # s[j]}

\* the loop moves on from the head of the list: the next entry, or line 155
AfterHead == IF Len(items) > 1 THEN "eval" ELSE "sleep"

\* Thread.start(): run() begins
Start ==
    /\ pc = "new"
    /\ pc' = "wait"
    /\ UNCHANGED <<jobs, proc_event, stop_event, now, snap, items, slept, woken,
                   callerVars, clock, inv, histVars, fieldVars>>

\* line 146: self.proc_event.wait() is called: it returns at once when the
\* flag is set and blocks, in the same step, when it is not
LoopWait ==
    /\ pc = "wait"
    /\ pc' = IF proc_event THEN "check" ELSE "blocked"
    /\ inv' = NoInv
    /\ UNCHANGED <<jobs, proc_event, stop_event, now, snap, items, slept, woken,
                   callerVars, clock, histVars, fieldVars>>

\* line 146: the blocked wait() returns once a set() has notified it,
\* whatever the flag is by then
LoopWake ==
    /\ pc = "blocked"
    /\ woken
    /\ pc' = "check"
    /\ woken' = FALSE
    /\ UNCHANGED <<jobs, proc_event, stop_event, now, snap, items, slept,
                   callerVars, clock, inv, histVars, fieldVars>>

\* a loop that does not look at stop_event
LoopCheck_NoStop ==
    /\ pc = "check"
    /\ pc' = "capture"
    /\ UNCHANGED <<jobs, proc_event, stop_event, now, snap, items, slept, woken,
                   callerVars, clock, inv, histVars, fieldVars>>

\* lines 147-148: if self.stop_event.is_set(): return
LoopCheck ==
    /\ pc = "check"
    /\ pc' = IF stop_event THEN "returned" ELSE "capture"
    /\ UNCHANGED <<jobs, proc_event, stop_event, now, snap, items, slept, woken,
                   callerVars, clock, inv, histVars, fieldVars>>

\* line 150: now = datetime.datetime.now()
LoopCapture ==
    /\ pc = "capture"
    /\ now' = clock
    /\ pc' = "snap"
    /\ regAtCapture' = jobs
    /\ sweepsAfterStop' = IF stopDone THEN sweepsAfterStop + 1 ELSE sweepsAfterStop
    /\ UNCHANGED <<jobs, proc_event, stop_event, snap, items, slept, woken,
                   callerVars, clock, inv, invokedThis, served,
                   quiet, snapInQuiet, stopDone, stopLive, lateReg, fieldVars>>

\* line 151: self.jobs.items(), a list built from the dict in one step
LoopItems ==
    /\ pc = "snap"
    /\ snap' = jobs
    /\ \E order \in Orders(jobs) : items' = order
    /\ pc' = IF DOMAIN jobs = {} THEN "sleep" ELSE "eval"
    /\ slept' = FALSE
    /\ UNCHANGED woken
    /\ snapInQuiet' = quiet
    /\ UNCHANGED <<jobs, proc_event, stop_event, now, callerVars, clock, inv,
                   regAtCapture, invokedThis, served, quiet, stopDone, stopLive,
                   sweepsAfterStop, lateReg, fieldVars>>

\* a loop whose try / except sits inside the for loop: an error of the
\* evaluation is logged and the loop goes on with the next entry
LoopEval_Continue ==
    /\ pc = "eval"
    /\ LET r == ExprContains(CronExpression(snap[Head(items)]), now)
       IN  IF r.raised THEN pc' = AfterHead /\ items' = Tail(items)
           ELSE IF r.val THEN pc' = "invoke" /\ UNCHANGED items
           ELSE pc' = AfterHead /\ items' = Tail(items)
    /\ slept' = FALSE
    /\ UNCHANGED woken
    /\ inv' = NoInv
    /\ UNCHANGED <<jobs, proc_event, stop_event, now, snap, callerVars, clock,
                   histVars, fieldVars>>

\* a loop that reads the clock again for each job instead of using now
LoopEval_Clock ==
    /\ pc = "eval"
    /\ LET r == ExprContains(CronExpression(snap[Head(items)]), clock)
       IN  IF r.raised THEN pc' = "failed" /\ UNCHANGED items
           ELSE IF r.val THEN pc' = "invoke" /\ UNCHANGED items
           ELSE pc' = AfterHead /\ items' = Tail(items)
    /\ slept' = FALSE
    /\ UNCHANGED woken
    /\ inv' = NoInv
    /\ UNCHANGED <<jobs, proc_event, stop_event, now, snap, callerVars, clock,
                   histVars, fieldVars>>

\* line 152: if now in job.cron; an error leaves the while loop for the
\* except clause of line 156, which logs it, and run() returns
LoopEval ==
    /\ pc = "eval"
    /\ LET r == ExprContains(CronExpression(snap[Head(items)]), now)
       IN  IF r.raised THEN pc' = "failed" /\ UNCHANGED items
           ELSE IF r.val THEN pc' = "invoke" /\ UNCHANGED items
           ELSE pc' = AfterHead /\ items' = Tail(items)
    /\ slept' = FALSE
    /\ UNCHANGED woken
    /\ inv' = NoInv
    /\ UNCHANGED <<jobs, proc_event, stop_event, now, snap, callerVars, clock,
                   histVars, fieldVars>>

\* line 153: job(); an Exception that leaves the wrapper is caught at line
\* 156 like any other, a BaseException ends the thread
LoopInvoke ==
    /\ pc = "invoke"
    /\ \E func \in Outcomes, succ, fail \in ContOutcomes :
         LET n == Head(items)
             w == Wrapper(func, succ, fail)
         IN  /\ inv' = w
             /\ IF w.escaped = "none"
                THEN pc' = AfterHead /\ items' = Tail(items)
                ELSE /\ pc' = IF w.escaped = "Exception" THEN "failed" ELSE "killed"
                     /\ UNCHANGED items
             /\ invokedThis' = Append(invokedThis, n)
             /\ served' = [served EXCEPT ![n] =
                             IF @.sec = now
                             THEN [sec |-> now, cnt |-> Min2(@.cnt + 1, 2)]
                             ELSE [sec |-> now, cnt |-> 1]]
    /\ slept' = FALSE
    /\ UNCHANGED woken
    /\ UNCHANGED <<jobs, proc_event, stop_event, now, snap, callerVars, clock,
                   regAtCapture, quiet, snapInQuiet, stopDone, stopLive,
                   sweepsAfterStop, lateReg, fieldVars>>

\* line 155: time.sleep(1) returns once a second has passed; the sweep's
\* list is garbage by then
LoopSleep ==
    /\ pc = "sleep"
    /\ slept
    /\ pc' = "wait"
    /\ slept' = FALSE
    /\ UNCHANGED woken
    /\ snap' = EmptyMap
    /\ inv' = NoInv
    /\ invokedThis' = <<>>
    /\ regAtCapture' = EmptyMap
    /\ UNCHANGED <<jobs, proc_event, stop_event, now, items, callerVars,
                   clock, served, quiet, snapInQuiet, stopDone, stopLive,
                   sweepsAfterStop, lateReg, fieldVars>>

\* the wall clock passes to the next second, wherever the threads are
Tick ==
    /\ clock < MaxClock
    /\ clock' = clock + 1
    /\ slept' = (slept \/ pc = "sleep")
    /\ UNCHANGED woken
    /\ UNCHANGED <<jobs, proc_event, stop_event, pc, now, snap, items,
                   callerVars, inv, histVars, fieldVars>>

\* a second passes that the model does not count: the clock keeps its
\* value, a sleeping loop has slept
Pass ==
    /\ pc = "sleep"
    /\ ~slept
    /\ slept' = TRUE
    /\ UNCHANGED woken
    /\ UNCHANGED <<jobs, proc_event, stop_event, pc, now, snap, items,
                   callerVars, clock, inv, histVars, fieldVars>>

Call ==
    \E c \in Callers :
        \/ \E n \in Names : \E p \in CronsOf(n) : RegisterPut(c, n, p)
        \/ RegisterSet(c)
        \/ \E n \in Names : DeregisterTest(c, n)
        \/ DeregisterDel(c)
        \/ DeregisterLen(c)
        \/ DeregisterClear(c)
        \/ StopSet(c)
        \/ StopClear(c)

Loop ==
    \/ LoopWait
    \/ LoopWake
    \/ LoopCheck
    \/ LoopCapture
    \/ LoopItems
    \/ LoopEval
    \/ LoopInvoke
    \/ LoopSleep

Next == Start \/ Loop \/ Call \/ Pass

NextTimed == Start \/ Loop \/ Call \/ Tick

SpecTimed == Init /\ [][NextTimed]_vars

Spec == Init /\ [][Next]_vars

FairSpec ==
    /\ Init
    /\ [][Next]_vars
    /\ WF_vars(Loop)
    /\ WF_vars(Pass)
    /\ WF_vars(\E c \in Callers :
                 \/ RegisterSet(c)
                 \/ DeregisterDel(c)
                 \/ DeregisterLen(c)
                 \/ DeregisterClear(c)
                 \/ StopClear(c))

(***************************************************************************)
(* The field matcher on its own: a field written from numbers, asked about *)
(* candidates.                                                             *)
(***************************************************************************)
\* the text "a-b/step"
RangeText(a, b, step) == Str(a) \o <<"-">> \o Str(b) \o <<"/">> \o Str(step)

\* the text "*/step"
StarText(step) == <<"*", "/">> \o Str(step)

FieldKinds == {hr, mon, dow}

InitField ==
    /\ InitSched
    /\ applied = FALSE
    /\ cand = 0
    /\ res = Returned(FALSE)
    /\ inStep \in 1..MaxStep
    /\ form \in {"range", "star"}
    /\ \E kind \in FieldKinds :
         IF form = "range"
         THEN /\ inA \in 0..MaxVal
              /\ inB \in 0..MaxVal
              /\ InvalidChars(RangeText(inA, inB, inStep), kind.specials) = {}
              /\ field = CronField(RangeText(inA, inB, inStep), kind)
         ELSE /\ inA = kind.min
              /\ inB = kind.max
              /\ InvalidChars(StarText(inStep), kind.specials) = {}
              /\ field = CronField(StarText(inStep), kind)

\* candidate in field
Contains ==
    /\ ~applied
    /\ \E c \in (field.min - CandPad)..(field.max + CandPad) :
         /\ cand' = c
         /\ res' = FieldContains(field, c)
    /\ applied' = TRUE
    /\ UNCHANGED <<schedVars, field, form, inA, inB, inStep>>

NextField == Contains

SpecField == InitField /\ [][NextField]_vars

(***************************************************************************)
(* The properties.                                                         *)
(***************************************************************************)
AcceptSet(f, t) == {n \in DOMAIN f : Accepts(CronExpression(f[n]), t)}

Invoked == {invokedThis[i] : i \in 1..Len(invokedThis)}

NoDup(q) == \A i, j \in 1..Len(q) : i # j => q[i] # q[j]

AllIdle == \A c \in Callers : cpc[c] = "idle"

\* the loop thread finishes a call of a job wrapper in this step
InvokeStep == pc = "invoke" /\ pc' # "invoke"

\* C1, as claimed: whenever the callable of a job raises in a sweep whose
\* list holds two or more jobs accepting the captured timestamp, the error
\* goes to on_failure, the wrapper returns normally and the loop lives on.
C1_FailureIsolation ==
    (inv.valid /\ inv.func # "return" /\ Cardinality(AcceptSet(snap, now)) >= 2)
        => (inv.fail /\ inv.escaped = "none" /\ pc \notin Terminal)

\* C2, as claimed: once stop(), called on a started scheduler, has returned,
\* the loop thread eventually ends, with no register() call needed (stated
\* for the runs in which a further call could still be made).
C2_StopTerminates ==
    (stopLive /\ stopDone /\ calls < MaxCalls) ~> (pc \in Terminal)

\* C3, as claimed: when every register / deregister call has returned and
\* stop() was never called, proc_event is set exactly if the registry holds
\* a job.
C3_HasJobsConsistent ==
    (AllIdle /\ ~stop_event) => (proc_event <=> DOMAIN jobs # {})

\* C4, as claimed: from the return of a deregister that emptied the registry
\* until the next register, the loop begins no sweep and invokes no job.
C4_NoSweepOnceEmptied ==
    [][quiet => ~(pc = "capture" /\ pc' = "snap") /\ ~InvokeStep]_vars

\* C4, amended: from the return of a deregister that emptied the registry
\* until the next register, a loop that calls proc_event.wait() blocks and a
\* blocked loop that no set() has notified stays blocked, a list the loop
\* takes is empty, and the only jobs it invokes are those of a list taken
\* before the removal.
C4_ParkedOnceEmptied ==
    [][quiet => /\ (pc = "wait" => pc' \in {"wait", "blocked"})
                /\ (pc = "blocked" /\ ~woken => pc' = "blocked")
                /\ (pc = "snap" /\ pc' # "snap" => items' = <<>>)
                /\ (InvokeStep => ~snapInQuiet)]_vars

\* C4's case: the registry was emptied and the loop, in the middle of a
\* sweep, is about to invoke a job that is no longer registered.
C4_Witness == quiet /\ pc = "invoke" /\ Head(items) \notin DOMAIN jobs

\* C5, as claimed: a call of the wrapper calls exactly one continuation,
\* on_success exactly if the callable returned, on_failure exactly if the
\* callable raised.
C5_ContinuationRouting ==
    inv.valid => /\ inv.succ # inv.fail
                 /\ (inv.succ <=> inv.func = "return")
                 /\ (inv.fail <=> inv.func # "return")

\* C6, as claimed: while stop() has not been called and the job stays
\* registered, two consecutive services of it leave out no second that its
\* expression matches, and no second is served twice.
C6_EveryMatchingSecondServed ==
    [][\A n \in Names :
         (/\ ~stop_event
          /\ n \in DOMAIN jobs
          /\ served[n].sec # -1
          /\ served'[n].sec # -1
          /\ served'[n] # served[n])
         => /\ served'[n].cnt = 1
            /\ \A t \in (served[n].sec + 1)..(served'[n].sec - 1) :
                 ~Accepts(CronExpression(jobs[n]), t)]_vars

\* C7: an error raised by evaluating a job's expression ends the loop: the
\* step that meets it leaves the sweep for the terminated state, and from
\* there the thread invokes nothing, sweeps nothing and is not restarted.
C7_LoopFatal ==
    [][/\ (/\ pc = "eval"
           /\ ExprContains(CronExpression(snap[Head(items)]), now).raised
           /\ pc' # pc) => pc' = "failed"
       /\ pc = "failed" => (pc' = "failed" /\ UNCHANGED <<now, snap, items, invokedThis>>)
      ]_vars

\* C7's case: the evaluation raised with a further job left in the list,
\* and a register() call made afterwards has set proc_event.
C7_Witness ==
    /\ pc = "failed"
    /\ Len(items) >= 2
    /\ ExprContains(CronExpression(snap[Head(items)]), now).raised
    /\ lateReg
    /\ proc_event

\* what the claimed arithmetic gives for the clause a field was written from
StepClauseBounds ==
    IF form = "range" THEN [lo |-> Min2(inA, inB), hi |-> Max2(inA, inB)]
                      ELSE [lo |-> field.min, hi |-> field.max]

\* C8: "a-b/step" matches exactly the candidates with lo <= c <= hi and
\* (c + lo) % step = 0; "*/step" does so with the field's bounds, and gives
\* what "min-max/step" gives.
C8_StepClause ==
    applied =>
        LET lo == StepClauseBounds.lo
            hi == StepClauseBounds.hi
        IN  /\ res = Returned(lo <= cand /\ cand <= hi /\ (cand + lo) % inStep = 0)
            /\ form = "star" =>
                 res = FieldContains([field EXCEPT !.value =
                                         RangeText(field.min, field.max, inStep)],
                                     cand)

\* C8's case: a range written high end first, a candidate selected by
\* (c + lo) % step that (c - lo) % step would reject.
C8_Witness ==
    /\ applied
    /\ form = "range"
    /\ inA > inB
    /\ res.val
    /\ (cand - inB) % inStep # 0

C10_ExactlyTheAcceptingJobs ==
    pc \in {"sleep"} \cup Terminal =>
        NoDup(invokedThis) /\ Invoked = AcceptSet(regAtCapture, now)

\* C10, amended: a sweep invokes, at most once each, only jobs of the list
\* it took at line 151 that accept the captured timestamp, and all of them
\* when it runs to its end.
C10_OnlyAcceptingJobsOfTheList ==
    /\ NoDup(invokedThis)
    /\ Invoked \subseteq AcceptSet(snap, now)
    /\ pc = "sleep" => Invoked = AcceptSet(snap, now)

\* C10's case: a sweep has run to its end and invoked two jobs while the
\* clock moved on and the registry changed under it.
C10_Witness ==
    /\ pc = "sleep"
    /\ Len(invokedThis) = 2
    /\ clock > now
    /\ jobs # snap

====
